---- MODULE Spec2Model ----
(***************************************************************************)
(* chatabase: a chart configuration is validated, normalised and turned    *)
(* into a parameterised SQL query with a positional argument list.         *)
(*                                                                         *)
(* The state is one ChartConfig object owned by a caller together with     *)
(* what the caller's last call returned.  The caller may call              *)
(* BuildChartQuery, ValidateAndNormalizeConfig and ToSql on the object in  *)
(* any order, any number of times.                                         *)
(*                                                                         *)
(* SQL text is kept as the sequence of pieces the builder wrote, in        *)
(* writing order; Render concatenates them into the string the caller      *)
(* receives.  A piece remembers whether it was produced by the "$%d" verb  *)
(* (ph > 0), the clause that wrote it (part) and, in the WHERE loop, the   *)
(* 1-based position of the filter that wrote it (at).                      *)
(*                                                                         *)
(* calls lists the functions of the package the last call went through;    *)
(* repeated tells that the last call was a BuildChartQuery that followed   *)
(* another, or a ToSql that followed another, on the same object.          *)
(* rows is the cursor ScanDynamicChart reads, the rows of the result set   *)
(* and the number of them already fetched, and results its output; the     *)
(* scan has a specification of its own, ScanSpec.                          *)
(***************************************************************************)
EXTENDS Integers, Sequences, FiniteSets, TLC

VARIABLES config, op, query, args, err, calls, repeated, rows, results

vars == <<config, op, query, args, err, calls, repeated, rows, results>>

-----------------------------------------------------------------------------
(* Bounds of the model *)

MaxFilters == 2
MaxValues == 3
MaxTables == 2
MaxJoins == 2

-----------------------------------------------------------------------------
(* interface{} values: the dynamic type and the content *)

Nil == [kind |-> "nil", v |-> ""]

Str(s) == [kind |-> "string", v |-> s]

Bool(b) == [kind |-> "bool", v |-> IF b THEN "true" ELSE "false"]

Num(n) == [kind |-> "int", v |-> ToString(n)]

(* strings.ToLower on the strings of the model; every other string of the *)
(* model holds no upper-case letter                                        *)
ToLower(s) ==
  CASE s = "IN" -> "in"
    [] s = "NOT IN" -> "not in"
    [] s = "Not In" -> "not in"
    [] s = "BETWEEN" -> "between"
    [] s = "Between" -> "between"
    [] s = "IS NULL" -> "is null"
    [] s = "IS NOT NULL" -> "is not null"
    [] s = "LIKE" -> "like"
    [] s = "ILIKE" -> "ilike"
    [] s = "NOT LIKE" -> "not like"
    [] s = "NOT ILIKE" -> "not ilike"
    [] s = "IS" -> "is"
    [] s = "TRUE" -> "true"
    [] s = "True" -> "true"
    [] s = "FALSE" -> "false"
    [] s = "False" -> "false"
    [] s = "LINE" -> "line"
    [] s = "Bar" -> "bar"
    [] OTHER -> s

-----------------------------------------------------------------------------
(* The text written so far *)

Text(s, part, at) == [text |-> s, ph |-> 0, part |-> part, at |-> at]

Placeholder(n, part, at) ==
  [text |-> "$" \o ToString(n), ph |-> n, part |-> part, at |-> at]

RECURSIVE Render(_)
Render(q) == IF q = <<>> THEN "" ELSE Head(q).text \o Render(Tail(q))

(* query.WriteString(fmt.Sprintf(...)) with only %s verbs: one piece per   *)
(* literal stretch and per argument of the format                          *)
RECURSIVE WriteString(_, _, _, _)
WriteString(st, strs, part, at) ==
  IF strs = <<>> THEN st
  ELSE WriteString([st EXCEPT !.query = Append(@, Text(Head(strs), part, at))],
                   Tail(strs), part, at)

(* a "$%d" written with the number n *)
WritePlaceholder(st, n, part, at) ==
  [st EXCEPT !.query = Append(@, Placeholder(n, part, at))]

-----------------------------------------------------------------------------
(* BuildChartQuery: the state of one call is                               *)
(*   query (strings.Builder), args, argIndex, and err: "" while running,   *)
(*   the returned error, or a run-time panic                               *)

NoError == ""

PanicIndex == "panic: runtime error: index out of range"

ErrBetweenNull == "BETWEEN operator cannot have NULL values"

ErrCompareNull(operator) ==
  "comparison operator " \o operator \o " cannot compare with NULL"

IsPanic(e) == e = PanicIndex

NewBuild == [query |-> <<>>, args |-> <<>>, argIndex |-> 1, err |-> NoError]

(* the loops that split filter.Values into nullCount and nonNullValues *)
NonNullValues(values) == SelectSeq(values, LAMBDA v : v # Nil)

NullCount(values) == Len(SelectSeq(values, LAMBDA v : v = Nil))

(* the loop that fills placeholders, appends to args and advances argIndex, *)
(* followed by strings.Join(placeholders, ", ") inside the format           *)
RECURSIVE JoinPlaceholders(_, _, _, _)
JoinPlaceholders(st, values, j, at) ==
  IF j > Len(values) THEN st
  ELSE LET sep == IF j > 1 THEN WriteString(st, <<", ">>, "where", at) ELSE st
           one == [WritePlaceholder(sep, sep.argIndex, "where", at)
                     EXCEPT !.args = Append(@, values[j]),
                            !.argIndex = @ + 1]
       IN JoinPlaceholders(one, values, j + 1, at)

(* InTerm binding every value of the mixed branch, the NULLs included *)
InTermBindsNull(st, filter, at) ==
  LET nullCount == NullCount(filter.Values)
      nonNullValues == NonNullValues(filter.Values)
  IN IF nullCount > 0 /\ Len(nonNullValues) > 0
     THEN LET a == WriteString(st, <<"(", filter.Column, " IN (">>, "where", at)
              b == JoinPlaceholders(a, filter.Values, 1, at)
          IN WriteString(b, <<") OR ", filter.Column, " IS NULL", ")">>, "where", at)
     ELSE IF nullCount > 0
     THEN WriteString(st, <<filter.Column, " IS NULL">>, "where", at)
     ELSE LET a == WriteString(st, <<filter.Column, " IN (">>, "where", at)
              b == JoinPlaceholders(a, nonNullValues, 1, at)
          IN WriteString(b, <<")">>, "where", at)

(* case "in" *)
InTerm(st, filter, at) ==
  LET nullCount == NullCount(filter.Values)
      nonNullValues == NonNullValues(filter.Values)
  IN IF nullCount > 0 /\ Len(nonNullValues) > 0
     THEN LET a == WriteString(st, <<"(", filter.Column, " IN (">>, "where", at)
              b == JoinPlaceholders(a, nonNullValues, 1, at)
          IN WriteString(b, <<") OR ", filter.Column, " IS NULL", ")">>, "where", at)
     ELSE IF nullCount > 0
     THEN WriteString(st, <<filter.Column, " IS NULL">>, "where", at)
     ELSE LET a == WriteString(st, <<filter.Column, " IN (">>, "where", at)
              b == JoinPlaceholders(a, nonNullValues, 1, at)
          IN WriteString(b, <<")">>, "where", at)

(* NotInTerm with the texts of the mixed branch and of the non-NULL branch *)
(* exchanged for "OR col IS NULL" and the bare NOT IN                      *)
NotInTermBare(st, filter, at) ==
  LET nullCount == NullCount(filter.Values)
      nonNullValues == NonNullValues(filter.Values)
  IN IF nullCount > 0 /\ Len(nonNullValues) > 0
     THEN LET a == WriteString(st, <<"(", filter.Column, " NOT IN (">>, "where", at)
              b == JoinPlaceholders(a, nonNullValues, 1, at)
          IN WriteString(b, <<") OR ", filter.Column, " IS NULL", ")">>, "where", at)
     ELSE IF nullCount > 0
     THEN WriteString(st, <<filter.Column, " IS NOT NULL">>, "where", at)
     ELSE LET a == WriteString(st, <<filter.Column, " NOT IN (">>, "where", at)
              b == JoinPlaceholders(a, nonNullValues, 1, at)
          IN WriteString(b, <<")">>, "where", at)

(* case "not in" *)
NotInTerm(st, filter, at) ==
  LET nullCount == NullCount(filter.Values)
      nonNullValues == NonNullValues(filter.Values)
  IN IF nullCount > 0 /\ Len(nonNullValues) > 0
     THEN LET a == WriteString(st, <<"(", filter.Column, " NOT IN (">>, "where", at)
              b == JoinPlaceholders(a, nonNullValues, 1, at)
          IN WriteString(b, <<") AND ", filter.Column, " IS NOT NULL", ")">>,
                         "where", at)
     ELSE IF nullCount > 0
     THEN WriteString(st, <<filter.Column, " IS NOT NULL">>, "where", at)
     ELSE LET a == WriteString(st, <<"(", filter.Column, " NOT IN (">>, "where", at)
              b == JoinPlaceholders(a, nonNullValues, 1, at)
          IN WriteString(b, <<") OR ", filter.Column, " IS NULL)">>, "where", at)

(* BetweenTerm with the counter advanced by one instead of two *)
BetweenTermAdvanceOne(st, filter, at) ==
  IF Len(filter.Values) < 1 THEN [st EXCEPT !.err = PanicIndex]
  ELSE IF filter.Values[1] = Nil THEN [st EXCEPT !.err = ErrBetweenNull]
  ELSE IF Len(filter.Values) < 2 THEN [st EXCEPT !.err = PanicIndex]
  ELSE IF filter.Values[2] = Nil THEN [st EXCEPT !.err = ErrBetweenNull]
  ELSE LET a == WriteString(st, <<filter.Column, " BETWEEN ">>, "where", at)
           b == WritePlaceholder(a, st.argIndex, "where", at)
           c == WriteString(b, <<" AND ">>, "where", at)
           d == WritePlaceholder(c, st.argIndex + 1, "where", at)
       IN [d EXCEPT !.args = @ \o <<filter.Values[1], filter.Values[2]>>,
                    !.argIndex = @ + 1]

(* case "between": Values[0] and Values[1] are indexed without a length    *)
(* check; || does not read Values[1] when Values[0] is nil                 *)
BetweenTerm(st, filter, at) ==
  IF Len(filter.Values) < 1 THEN [st EXCEPT !.err = PanicIndex]
  ELSE IF filter.Values[1] = Nil THEN [st EXCEPT !.err = ErrBetweenNull]
  ELSE IF Len(filter.Values) < 2 THEN [st EXCEPT !.err = PanicIndex]
  ELSE IF filter.Values[2] = Nil THEN [st EXCEPT !.err = ErrBetweenNull]
  ELSE LET a == WriteString(st, <<filter.Column, " BETWEEN ">>, "where", at)
           b == WritePlaceholder(a, st.argIndex, "where", at)
           c == WriteString(b, <<" AND ">>, "where", at)
           d == WritePlaceholder(c, st.argIndex + 1, "where", at)
       IN [d EXCEPT !.args = @ \o <<filter.Values[1], filter.Values[2]>>,
                    !.argIndex = @ + 2]

(* BindValue with the value written into the text instead of bound *)
BindValueInline(st, filter, at) ==
  WriteString(st, <<filter.Column, " ", filter.Operator, " ", filter.Value.v>>,
              "where", at)

(* "%s %s $%d" with the column, the operator as written and argIndex; the  *)
(* value is appended and argIndex advanced                                 *)
BindValue(st, filter, at) ==
  LET a == WriteString(st, <<filter.Column, " ", filter.Operator, " ">>, "where", at)
      b == WritePlaceholder(a, st.argIndex, "where", at)
  IN [b EXCEPT !.args = Append(@, filter.Value), !.argIndex = @ + 1]

(* the four boolean forms, by operator and truth value *)
BooleanTerm(st, filter, truth, at) ==
  IF ToLower(filter.Operator) = "="
  THEN IF truth
       THEN WriteString(st, <<filter.Column, " IS TRUE">>, "where", at)
       ELSE WriteString(st, <<filter.Column, " IS FALSE">>, "where", at)
  ELSE IF truth
       THEN WriteString(st, <<filter.Column, " IS NOT TRUE">>, "where", at)
       ELSE WriteString(st, <<filter.Column, " IS NOT FALSE">>, "where", at)

(* EqualityTerm with the counter advanced by the NULL forms too *)
EqualityTermNullAdvances(st, filter, at) ==
  IF filter.Value = Nil
  THEN [(IF ToLower(filter.Operator) = "="
         THEN WriteString(st, <<filter.Column, " IS NULL">>, "where", at)
         ELSE WriteString(st, <<filter.Column, " IS NOT NULL">>, "where", at))
          EXCEPT !.argIndex = @ + 1]
  ELSE IF filter.Value.kind = "string"
  THEN LET lowerVal == ToLower(filter.Value.v)
       IN IF lowerVal = "true" \/ lowerVal = "false"
          THEN BooleanTerm(st, filter, lowerVal = "true", at)
          ELSE BindValue(st, filter, at)
  ELSE IF filter.Value.kind = "bool"
  THEN BooleanTerm(st, filter, filter.Value.v = "true", at)
  ELSE BindValue(st, filter, at)

(* EqualityTerm with the string compared to "true" and "false" as written *)
EqualityTermCaseSensitive(st, filter, at) ==
  IF filter.Value = Nil
  THEN IF ToLower(filter.Operator) = "="
       THEN WriteString(st, <<filter.Column, " IS NULL">>, "where", at)
       ELSE WriteString(st, <<filter.Column, " IS NOT NULL">>, "where", at)
  ELSE IF filter.Value.kind = "string"
  THEN IF filter.Value.v = "true" \/ filter.Value.v = "false"
       THEN BooleanTerm(st, filter, filter.Value.v = "true", at)
       ELSE BindValue(st, filter, at)
  ELSE IF filter.Value.kind = "bool"
  THEN BooleanTerm(st, filter, filter.Value.v = "true", at)
  ELSE BindValue(st, filter, at)

(* case "=", "!=", "<>" *)
EqualityTerm(st, filter, at) ==
  IF filter.Value = Nil
  THEN IF ToLower(filter.Operator) = "="
       THEN WriteString(st, <<filter.Column, " IS NULL">>, "where", at)
       ELSE WriteString(st, <<filter.Column, " IS NOT NULL">>, "where", at)
  ELSE IF filter.Value.kind = "string"
  THEN LET lowerVal == ToLower(filter.Value.v)
       IN IF lowerVal = "true" \/ lowerVal = "false"
          THEN BooleanTerm(st, filter, lowerVal = "true", at)
          ELSE BindValue(st, filter, at)
  ELSE IF filter.Value.kind = "bool"
  THEN BooleanTerm(st, filter, filter.Value.v = "true", at)
  ELSE BindValue(st, filter, at)

(* case "<", "<=", ">", ">=" *)
ComparisonTerm(st, filter, at) ==
  IF filter.Value = Nil
  THEN [st EXCEPT !.err = ErrCompareNull(filter.Operator)]
  ELSE BindValue(st, filter, at)

(* case "like", "ilike", "not like", "not ilike", and the default case *)
NullOrBindTerm(st, filter, at) ==
  IF filter.Value = Nil
  THEN WriteString(st, <<filter.Column, " IS NULL">>, "where", at)
  ELSE BindValue(st, filter, at)

(* the switch on strings.ToLower(filter.Operator) *)
FilterTerm(st, filter, at) ==
  LET o == ToLower(filter.Operator)
  IN CASE o = "in" -> InTerm(st, filter, at)
       [] o = "not in" -> NotInTerm(st, filter, at)
       [] o = "between" -> BetweenTerm(st, filter, at)
       [] o \in {"=", "!=", "<>"} -> EqualityTerm(st, filter, at)
       [] o = "is null" -> WriteString(st, <<filter.Column, " IS NULL">>, "where", at)
       [] o = "is not null" ->
            WriteString(st, <<filter.Column, " IS NOT NULL">>, "where", at)
       [] o \in {"<", "<=", ">", ">="} -> ComparisonTerm(st, filter, at)
       [] o \in {"like", "ilike", "not like", "not ilike"} ->
            NullOrBindTerm(st, filter, at)
       [] OTHER -> NullOrBindTerm(st, filter, at)

(* the loop over config.Filters, from filter i to filter n; a return or a  *)
(* panic inside the switch ends the call                                   *)
RECURSIVE WhereLoop(_, _, _, _)
WhereLoop(st, filters, i, n) ==
  IF i > n \/ st.err # NoError THEN st
  ELSE LET sep == IF i > 1 THEN WriteString(st, <<" AND ">>, "where", 0) ELSE st
       IN WhereLoop(FilterTerm(sep, filters[i], i), filters, i + 1, n)

(* the WHERE clause, stopped after filter n *)
WhereClause(st, filters, n) ==
  IF Len(filters) > 0
  THEN WhereLoop(WriteString(st, <<" WHERE ">>, "where", 0), filters, 1, n)
  ELSE st

(* one axis of the SELECT list: "AGG(col) as name" or "col as name" *)
AxisTerm(st, axis, name) ==
  IF axis.Aggregation # ""
  THEN WriteString(st, <<axis.Aggregation, "(", axis.Column, ") as ", name>>,
                   "select", 0)
  ELSE WriteString(st, <<axis.Column, " as ", name>>, "select", 0)

(* the loop over config.YAxis; i is the 1-based position, the name is 0-based *)
RECURSIVE YAxisLoop(_, _, _)
YAxisLoop(st, yAxis, i) ==
  IF i > Len(yAxis) THEN st
  ELSE LET sep == WriteString(st, <<", ">>, "select", 0)
       IN YAxisLoop(AxisTerm(sep, yAxis[i], "y_value_" \o ToString(i - 1)),
                    yAxis, i + 1)

SelectClause(st, c) ==
  LET a == WriteString(st, <<"SELECT ">>, "select", 0)
      b == AxisTerm(a, c.XAxis, "x_value")
  IN YAxisLoop(b, c.YAxis, 1)

(* FROM: config.Tables[0] is indexed without a length check *)
FromClause(st, c) ==
  IF Len(c.Tables) = 0 THEN [st EXCEPT !.err = PanicIndex]
  ELSE LET a == WriteString(st, <<" FROM ", c.Tables[1].Name>>, "from", 0)
       IN IF c.Tables[1].Alias # ""
          THEN WriteString(a, <<" ", c.Tables[1].Alias>>, "from", 0)
          ELSE a

(* one JOIN *)
JoinTerm(st, join) ==
  LET a == WriteString(st, <<" ", join.Type, " JOIN ", join.Table>>, "join", 0)
      b == IF join.Alias # "" THEN WriteString(a, <<" ", join.Alias>>, "join", 0)
           ELSE a
  IN WriteString(b, <<" ON ", join.Condition>>, "join", 0)

(* the inner loop over table.Joins *)
RECURSIVE JoinLoop(_, _, _)
JoinLoop(st, joins, j) ==
  IF j > Len(joins) THEN st
  ELSE JoinLoop(JoinTerm(st, joins[j]), joins, j + 1)

(* the outer loop over config.Tables *)
RECURSIVE TableLoop(_, _, _)
TableLoop(st, tables, i) ==
  IF i > Len(tables) THEN st
  ELSE TableLoop(JoinLoop(st, tables[i].Joins, 1), tables, i + 1)

(* JoinClauses over the joins of Tables[0] alone *)
JoinClausesFirstTable(st, c) == JoinLoop(st, c.Tables[1].Joins, 1)

JoinClauses(st, c) == TableLoop(st, c.Tables, 1)

(* strings.Join(elems, ", ") written as pieces *)
RECURSIVE JoinStrings(_, _, _, _)
JoinStrings(st, elems, i, part) ==
  IF i > Len(elems) THEN st
  ELSE LET sep == IF i > 1 THEN WriteString(st, <<", ">>, part, 0) ELSE st
       IN JoinStrings(WriteString(sep, <<elems[i]>>, part, 0), elems, i + 1, part)

GroupByClause(st, c) ==
  IF Len(c.GroupBy) > 0
  THEN JoinStrings(WriteString(st, <<" GROUP BY ">>, "group", 0), c.GroupBy, 1, "group")
  ELSE st

(* the loop that builds orderClauses, then strings.Join *)
RECURSIVE OrderLoop(_, _, _)
OrderLoop(st, orderBy, i) ==
  IF i > Len(orderBy) THEN st
  ELSE LET sep == IF i > 1 THEN WriteString(st, <<", ">>, "order", 0) ELSE st
       IN OrderLoop(WriteString(sep, <<orderBy[i].Column, " ", orderBy[i].Direction>>,
                                "order", 0),
                    orderBy, i + 1)

OrderByClause(st, c) ==
  IF Len(c.OrderBy) > 0
  THEN OrderLoop(WriteString(st, <<" ORDER BY ">>, "order", 0), c.OrderBy, 1)
  ELSE st

LimitClause(st, c) ==
  IF c.Limit > 0
  THEN WriteString(st, <<" LIMIT ", ToString(c.Limit)>>, "limit", 0)
  ELSE st

(* what a call hands back: on an error "", nil and the error; a panic      *)
(* hands back nothing (recorded as no text, no arguments and the panic)    *)
Returned(st) ==
  IF st.err # NoError
  THEN [query |-> <<>>, args |-> <<>>, err |-> st.err]
  ELSE [query |-> st.query, args |-> st.args, err |-> NoError]

(* the run of BuildChartQuery up to and including filter n of the WHERE loop *)
BuildUpTo(c, n) ==
  LET a == SelectClause(NewBuild, c)
      b == FromClause(a, c)
      d == IF b.err # NoError THEN b ELSE JoinClauses(b, c)
  IN IF d.err # NoError THEN d ELSE WhereClause(d, c.Filters, n)

BuildChartQuery(c) ==
  LET w == BuildUpTo(c, Len(c.Filters))
  IN IF w.err # NoError THEN Returned(w)
     ELSE Returned(LimitClause(OrderByClause(GroupByClause(w, c), c), c))

-----------------------------------------------------------------------------
(* Validation *)

(* contains(slice, item) *)
Contains(slice, item) == \E k \in 1..Len(slice) : slice[k] = item

validChartTypes == <<"line", "bar", "pie", "scatter", "area", "histogram">>

validJoinTypes == <<"INNER", "LEFT", "RIGHT", "FULL">>

validAggregations == <<"SUM", "COUNT", "AVG", "MIN", "MAX">>

validOperators == <<"=", "!=", ">", "<", ">=", "<=", "IN", "LIKE", "BETWEEN", "IS">>

(* the indices in the messages are the 0-based indices of the code *)
validateJoinConfig(join, tableIndex, joinIndex) ==
  LET where == " at table index " \o ToString(tableIndex) \o ", join index "
                 \o ToString(joinIndex)
  IN IF join.Table = "" THEN "join table is required" \o where
     ELSE IF join.Condition = "" THEN "join condition is required" \o where
     ELSE IF join.Type # "" /\ ~Contains(validJoinTypes, join.Type)
     THEN "invalid join type '" \o join.Type \o "'" \o where
            \o ". Must be one of: INNER, LEFT, RIGHT, FULL"
     ELSE NoError

validateFilter(filter, index) ==
  LET idx == ToString(index)
  IN IF filter.Raw # "" THEN NoError
     ELSE IF filter.Column = "" THEN "filter column is required at index " \o idx
     ELSE IF filter.Operator = "" THEN "filter operator is required at index " \o idx
     ELSE IF ~Contains(validOperators, filter.Operator)
     THEN "invalid filter operator '" \o filter.Operator \o "' at index " \o idx
            \o ". Must be one of: =, !=, >, <, >=, <=, IN, LIKE, BETWEEN, IS"
     ELSE IF filter.Operator = "IN"
     THEN IF Len(filter.Values) = 0
          THEN "IN operator requires 'values' array at filter index " \o idx
          ELSE NoError
     ELSE IF filter.Operator = "BETWEEN"
     THEN IF Len(filter.Values) # 2
          THEN "BETWEEN operator requires exactly 2 values at filter index " \o idx
          ELSE NoError
     ELSE IF filter.Operator = "IS" THEN NoError
     ELSE IF filter.Value = Nil /\ Len(filter.Values) = 0
     THEN "filter value is required for operator '" \o filter.Operator
            \o "' at index " \o idx
     ELSE NoError

(* the loop over table.Joins: the first error, if any *)
RECURSIVE validateJoins(_, _, _)
validateJoins(joins, i, j) ==
  IF j > Len(joins) THEN NoError
  ELSE LET e == validateJoinConfig(joins[j], i - 1, j - 1)
       IN IF e # NoError THEN e ELSE validateJoins(joins, i, j + 1)

(* the loop over config.Tables *)
RECURSIVE validateTables(_, _)
validateTables(tables, i) ==
  IF i > Len(tables) THEN NoError
  ELSE IF tables[i].Name = ""
  THEN "table name is required at index " \o ToString(i - 1)
  ELSE LET e == validateJoins(tables[i].Joins, i, 1)
       IN IF e # NoError THEN e ELSE validateTables(tables, i + 1)

(* the loop over config.YAxis *)
RECURSIVE validateYAxes(_, _)
validateYAxes(yAxis, i) ==
  IF i > Len(yAxis) THEN NoError
  ELSE IF yAxis[i].Column = ""
  THEN "y_axis column is required at index " \o ToString(i - 1)
  ELSE IF yAxis[i].Aggregation # "" /\ ~Contains(validAggregations, yAxis[i].Aggregation)
  THEN "invalid aggregation '" \o yAxis[i].Aggregation \o "' for y_axis at index "
         \o ToString(i - 1) \o ". Must be one of: SUM, COUNT, AVG, MIN, MAX"
  ELSE validateYAxes(yAxis, i + 1)

(* the loop over config.Filters *)
RECURSIVE validateFilters(_, _)
validateFilters(filters, i) ==
  IF i > Len(filters) THEN NoError
  ELSE LET e == validateFilter(filters[i], i - 1)
       IN IF e # NoError THEN e ELSE validateFilters(filters, i + 1)

(* the checks in another order: the chart type settled first, the x-axis *)
(* before the tables                                                     *)
validateChartConfigKindFirst(c) ==
  IF c.ChartType = "" THEN "chart_type is required"
  ELSE IF ~Contains(validChartTypes, c.ChartType)
  THEN "invalid chart_type: " \o c.ChartType
         \o ". Must be one of: line, bar, pie, scatter, area, histogram"
  ELSE IF c.Title = "" THEN "title is required"
  ELSE IF Len(c.Tables) = 0 THEN "at least one table is required"
  ELSE IF Len(c.YAxis) = 0 THEN "at least one y-axis is required"
  ELSE IF c.XAxis.Column = "" THEN "x_axis column is required"
  ELSE LET t == validateTables(c.Tables, 1)
       IN IF t # NoError THEN t
          ELSE LET y == validateYAxes(c.YAxis, 1)
               IN IF y # NoError THEN y ELSE validateFilters(c.Filters, 1)

validateChartConfig(c) ==
  IF c.ChartType = "" THEN "chart_type is required"
  ELSE IF c.Title = "" THEN "title is required"
  ELSE IF Len(c.Tables) = 0 THEN "at least one table is required"
  ELSE IF Len(c.YAxis) = 0 THEN "at least one y-axis is required"
  ELSE IF ~Contains(validChartTypes, c.ChartType)
  THEN "invalid chart_type: " \o c.ChartType
         \o ". Must be one of: line, bar, pie, scatter, area, histogram"
  ELSE LET t == validateTables(c.Tables, 1)
       IN IF t # NoError THEN t
          ELSE IF c.XAxis.Column = "" THEN "x_axis column is required"
          ELSE LET y == validateYAxes(c.YAxis, 1)
               IN IF y # NoError THEN y ELSE validateFilters(c.Filters, 1)

DefaultWidth == 800

DefaultHeight == 400

(* a normaliser whose default join type the validator does not know *)
NormalizeJoinLowercase(join) ==
  IF join.Type = "" THEN [join EXCEPT !.Type = "inner"] ELSE join

(* the defaults ValidateAndNormalizeConfig fills in *)
NormalizeJoin(join) == IF join.Type = "" THEN [join EXCEPT !.Type = "INNER"] ELSE join

NormalizeTable(table) ==
  [table EXCEPT !.Joins = [j \in 1..Len(table.Joins) |-> NormalizeJoin(table.Joins[j])]]

(* a normaliser that overwrites the direction already set *)
NormalizeOrderOverwrites(order) == [order EXCEPT !.Direction = "ASC"]

NormalizeOrder(order) ==
  IF order.Direction = "" THEN [order EXCEPT !.Direction = "ASC"] ELSE order

NormalizeOptions(options) ==
  [options EXCEPT !.Width = IF @ = 0 THEN DefaultWidth ELSE @,
                  !.Height = IF @ = 0 THEN DefaultHeight ELSE @,
                  !.Theme = IF @ = "" THEN "light" ELSE @]

(* a normaliser that fills in the defaults before it validates *)
ValidateAndNormalizeConfigEager(c) ==
  LET n == [c EXCEPT !.ChartType = ToLower(@),
                     !.Tables = [i \in 1..Len(c.Tables) |-> NormalizeTable(c.Tables[i])],
                     !.OrderBy = [i \in 1..Len(c.OrderBy) |-> NormalizeOrder(c.OrderBy[i])],
                     !.Options = NormalizeOptions(@)]
  IN [config |-> n, err |-> validateChartConfig(n)]

(* the configuration after the call, and the error returned *)
ValidateAndNormalizeConfig(c) ==
  LET e == validateChartConfig(c)
  IN IF e # NoError THEN [config |-> c, err |-> e]
     ELSE [config |->
             [c EXCEPT !.ChartType = ToLower(@),
                       !.Tables = [i \in 1..Len(c.Tables) |-> NormalizeTable(c.Tables[i])],
                       !.OrderBy = [i \in 1..Len(c.OrderBy) |-> NormalizeOrder(c.OrderBy[i])],
                       !.Options = NormalizeOptions(@)],
           err |-> NoError]

(* an entry point that builds before it validates *)
ToSqlBuildsFirst(c) ==
  LET b == BuildChartQuery(c)
      v == ValidateAndNormalizeConfig(c)
      called == <<"BuildChartQuery", "ValidateAndNormalizeConfig">>
  IN IF v.err # NoError \/ b.err # NoError
     THEN [config |-> v.config, query |-> <<>>, args |-> <<>>,
           err |-> IF v.err # NoError THEN v.err ELSE b.err, calls |-> called]
     ELSE [config |-> v.config, query |-> b.query, args |-> b.args,
           err |-> NoError, calls |-> called]

(* the configuration after the call, the three values returned, and the   *)
(* functions called on the way                                             *)
ToSql(c) ==
  LET v == ValidateAndNormalizeConfig(c)
  IN IF v.err # NoError
     THEN [config |-> v.config, query |-> <<>>, args |-> <<>>, err |-> v.err,
           calls |-> <<"ValidateAndNormalizeConfig">>]
     ELSE LET b == BuildChartQuery(v.config)
              called == <<"ValidateAndNormalizeConfig", "BuildChartQuery">>
          IN IF b.err # NoError
             THEN [config |-> v.config, query |-> <<>>, args |-> <<>>, err |-> b.err,
                   calls |-> called]
             ELSE [config |-> v.config, query |-> b.query, args |-> b.args,
                   err |-> b.err, calls |-> called]

-----------------------------------------------------------------------------
(* The configurations a caller hands in *)

SeqsUpTo(S, n) == UNION {[1..k -> S] : k \in 0..n}

NoFilterFields == [Value |-> Nil, Values |-> <<>>, Raw |-> "", RawValues |-> <<>>]

EqualityOperators == {"=", "!=", "<>"}

OtherOperators ==
  {"<", "<=", ">", ">=", "LIKE", "like", "ILIKE", "NOT LIKE", "NOT ILIKE",
   "IS NULL", "IS NOT NULL", "IS", "~"}

EqualityValues ==
  {Nil, Str("completed"), Str("true"), Str("TRUE"), Str("false"), Str("False"),
   Bool(TRUE), Bool(FALSE), Num(1)}

OtherValues == {Nil, Str("completed"), Str("true")}

SetOperators == {"IN", "NOT IN", "not in", "BETWEEN"}

(* the value sequences up to MaxValues long: every pattern of NULLs, the   *)
(* value at position i being the number i                                  *)
ValueSeqs ==
  UNION {{[i \in 1..k |-> IF i \in nulls THEN Nil ELSE Num(i)] : nulls \in SUBSET (1..k)} :
         k \in 0..MaxValues}

(* a scalar value with an operator *)
ScalarFilters ==
  {[NoFilterFields EXCEPT !.Value = v] @@ [Column |-> "status", Operator |-> o] :
     o \in EqualityOperators, v \in EqualityValues}
  \cup
  {[NoFilterFields EXCEPT !.Value = v] @@ [Column |-> "status", Operator |-> o] :
     o \in OtherOperators, v \in OtherValues}

(* a value sequence with an operator; with an ordered comparison the       *)
(* sequence stands in for the missing scalar                               *)
SetFilters ==
  {[NoFilterFields EXCEPT !.Values = vs] @@ [Column |-> "status", Operator |-> o] :
     o \in SetOperators, vs \in ValueSeqs}
  \cup
  {[NoFilterFields EXCEPT !.Values = <<Num(1)>>] @@ [Column |-> "status", Operator |-> o] :
     o \in {"<", ">="}}

(* a raw predicate with its bound values, beside the structured fields *)
RawFilters ==
  {[Column |-> c, Operator |-> o, Value |-> vv[1], Values |-> vv[2],
    Raw |-> "amount > $1", RawValues |-> <<Num(5)>>] :
     c \in {"", "status"}, o \in {"", "=", "<", "BETWEEN"},
     vv \in {<<Nil, <<>>>>, <<Num(7), <<Num(1), Num(2)>>>>}}

FilterUniverse == ScalarFilters \cup SetFilters \cup RawFilters

(* the filters that surround the one under study: no placeholder, one, two, *)
(* and a build error                                                        *)
ContextFilters ==
  {[NoFilterFields EXCEPT !.Value = Nil] @@ [Column |-> "deleted_at", Operator |-> "IS NULL"],
   [NoFilterFields EXCEPT !.Value = Str("eu")] @@ [Column |-> "region", Operator |-> "="],
   [NoFilterFields EXCEPT !.Values = <<Num(10), Num(20)>>]
      @@ [Column |-> "amount", Operator |-> "BETWEEN"],
   [NoFilterFields EXCEPT !.Values = <<Num(3)>>] @@ [Column |-> "age", Operator |-> "<"]}

FilterLists ==
  {<<>>} \cup
  UNION {{pre \o <<f>> \o post :
            f \in FilterUniverse,
            post \in SeqsUpTo(ContextFilters, MaxFilters - 1 - Len(pre))} :
         pre \in SeqsUpTo(ContextFilters, MaxFilters - 1)}

JoinUniverse ==
  {[Table |-> "users", Alias |-> "", Type |-> "LEFT",
    Condition |-> "orders.user_id = users.id"],
   [Table |-> "items", Alias |-> "i", Type |-> "INNER",
    Condition |-> "i.order_id = orders.id"],
   [Table |-> "payments", Alias |-> "", Type |-> "",
    Condition |-> "payments.order_id = orders.id"]}

TableUniverse ==
  {[Name |-> n, Alias |-> a, Joins |-> js] :
     n \in {"orders", "customers"}, a \in {""}, js \in SeqsUpTo(JoinUniverse, MaxJoins)}

RECURSIVE CountJoins(_)
CountJoins(tables) ==
  IF tables = <<>> THEN 0 ELSE Len(Head(tables).Joins) + CountJoins(Tail(tables))

(* up to MaxTables tables holding up to MaxJoins joins between them *)
TableLists ==
  {ts \in SeqsUpTo(TableUniverse, MaxTables) :
     /\ CountJoins(ts) <= MaxJoins
     /\ \A i \in 1..Len(ts) : ts[i].Name = (IF i = 1 THEN "orders" ELSE "customers")}

BaseConfig ==
  [ChartType |-> "line",
   Title |-> "Revenue",
   Tables |-> <<[Name |-> "orders", Alias |-> "", Joins |-> <<>>]>>,
   XAxis |-> [Column |-> "created_at", Aggregation |-> ""],
   YAxis |-> <<[Column |-> "amount", Aggregation |-> "SUM"]>>,
   GroupBy |-> <<>>,
   Filters |-> <<>>,
   Options |-> [Width |-> 0, Height |-> 0, Theme |-> ""],
   Limit |-> 0,
   OrderBy |-> <<>>]

(* every filter list on the plain query *)
FilterConfigs == {[BaseConfig EXCEPT !.Filters = fs] : fs \in FilterLists}

(* every table list, without and with a WHERE clause *)
TableConfigs ==
  {[BaseConfig EXCEPT !.Tables = ts, !.Filters = fs] :
     ts \in TableLists,
     fs \in {<<>>, <<[NoFilterFields EXCEPT !.Value = Str("eu")]
                       @@ [Column |-> "region", Operator |-> "="]>>}}

(* the other clauses of the query *)
ClauseConfigs ==
  {[BaseConfig EXCEPT !.XAxis = x, !.YAxis = ys, !.GroupBy = g, !.OrderBy = ob,
                      !.Limit = l, !.Filters = fs, !.Tables[1].Alias = a] :
     a \in {"", "o"},
     x \in {[Column |-> "created_at", Aggregation |-> ""],
            [Column |-> "created_at", Aggregation |-> "DATE"]},
     ys \in {<<>>,
             <<[Column |-> "amount", Aggregation |-> "SUM"]>>,
             <<[Column |-> "amount", Aggregation |-> "SUM"],
               [Column |-> "id", Aggregation |-> ""]>>},
     g \in {<<>>, <<"created_at">>, <<"created_at", "region">>},
     ob \in {<<>>,
             <<[Column |-> "created_at", Direction |-> "ASC"]>>,
             <<[Column |-> "created_at", Direction |-> ""],
               [Column |-> "amount", Direction |-> "DESC"]>>},
     l \in {0, 100},
     fs \in {<<>>, <<[NoFilterFields EXCEPT !.Value = Str("eu")]
                       @@ [Column |-> "region", Operator |-> "="]>>}}

(* configurations that break several rules of the validator at once *)
ValidationConfigs ==
  {[BaseConfig EXCEPT !.ChartType = ct, !.Title = ti, !.Tables = ts,
                      !.XAxis.Column = x, !.YAxis = ys, !.Filters = fs] :
     ct \in {"line", "", "donut", "LINE"},
     ti \in {"Revenue", ""},
     ts \in {<<>>,
             <<[Name |-> "orders", Alias |-> "", Joins |-> <<>>]>>,
             <<[Name |-> "", Alias |-> "", Joins |-> <<>>]>>,
             <<[Name |-> "orders", Alias |-> "",
                Joins |-> <<[Table |-> "users", Alias |-> "", Type |-> "CROSS",
                             Condition |-> "orders.user_id = users.id"]>>]>>},
     x \in {"created_at", ""},
     ys \in {<<>>,
             <<[Column |-> "amount", Aggregation |-> "SUM"]>>,
             <<[Column |-> "amount", Aggregation |-> "MEDIAN"]>>,
             <<[Column |-> "", Aggregation |-> "SUM"]>>},
     fs \in {<<>>,
             <<[NoFilterFields EXCEPT !.Value = Str("eu")]
                 @@ [Column |-> "", Operator |-> "="]>>,
             <<[NoFilterFields EXCEPT !.Value = Str("eu")]
                 @@ [Column |-> "region", Operator |-> ""]>>}}

(* the options, the join types and the sort directions, set and unset *)
OptionConfigs ==
  {[BaseConfig EXCEPT !.Options = [Width |-> w, Height |-> h, Theme |-> th],
                      !.Tables[1].Joins = js, !.OrderBy = ob] :
     w \in {0, 1024}, h \in {0, 300}, th \in {"", "dark"},
     js \in {<<>>,
             <<[Table |-> "payments", Alias |-> "", Type |-> "",
                Condition |-> "payments.order_id = orders.id"],
               [Table |-> "users", Alias |-> "", Type |-> "RIGHT",
                Condition |-> "orders.user_id = users.id"]>>},
     ob \in {<<>>,
             <<[Column |-> "created_at", Direction |-> ""],
               [Column |-> "amount", Direction |-> "DESC"]>>}}

(* the query of the README's quick start *)
ScenarioConfig ==
  [BaseConfig EXCEPT
     !.Tables = <<[Name |-> "orders", Alias |-> "",
                   Joins |-> <<[Table |-> "users", Alias |-> "", Type |-> "LEFT",
                                Condition |-> "orders.user_id = users.id"]>>]>>,
     !.Filters = <<NoFilterFields @@ [Column |-> "deleted_at", Operator |-> "IS NULL"]>>,
     !.GroupBy = <<"created_at">>,
     !.OrderBy = <<[Column |-> "created_at", Direction |-> "ASC"]>>,
     !.Limit = 100]

Configs ==
  FilterConfigs \cup TableConfigs \cup ClauseConfigs \cup ValidationConfigs
    \cup OptionConfigs \cup {ScenarioConfig}

-----------------------------------------------------------------------------
(* The caller *)

Init ==
  /\ config \in Configs
  /\ op = "none"
  /\ query = <<>>
  /\ args = <<>>
  /\ err = NoError
  /\ calls = <<>>
  /\ repeated = FALSE
  /\ rows = [data |-> <<>>, next |-> 0]
  /\ results = <<>>

(* a panic ends the program *)
Running == ~IsPanic(err)

(* a builder that fills the join defaults into the configuration it reads *)
CallBuildChartQueryWritesConfig ==
  /\ Running
  /\ LET r == BuildChartQuery(config)
     IN /\ query' = r.query
        /\ args' = r.args
        /\ err' = r.err
  /\ op' = "BuildChartQuery"
  /\ calls' = <<"BuildChartQuery">>
  /\ repeated' = (op = "BuildChartQuery")
  /\ config' = [config EXCEPT !.Tables =
                  [i \in 1..Len(config.Tables) |-> NormalizeTable(config.Tables[i])]]
  /\ UNCHANGED <<rows, results>>

(* a builder that keeps its argument list from one call to the next *)
CallBuildChartQueryKeepsArgs ==
  /\ Running
  /\ LET r == BuildChartQuery(config)
     IN /\ query' = r.query
        /\ args' = args \o r.args
        /\ err' = r.err
  /\ op' = "BuildChartQuery"
  /\ calls' = <<"BuildChartQuery">>
  /\ repeated' = (op = "BuildChartQuery")
  /\ UNCHANGED <<config, rows, results>>

CallBuildChartQuery ==
  /\ Running
  /\ LET r == BuildChartQuery(config)
     IN /\ query' = r.query
        /\ args' = r.args
        /\ err' = r.err
  /\ op' = "BuildChartQuery"
  /\ calls' = <<"BuildChartQuery">>
  /\ repeated' = (op = "BuildChartQuery")
  /\ UNCHANGED <<config, rows, results>>

CallValidateAndNormalizeConfig ==
  /\ Running
  /\ LET r == ValidateAndNormalizeConfig(config)
     IN /\ config' = r.config
        /\ err' = r.err
  /\ query' = <<>>
  /\ args' = <<>>
  /\ op' = "ValidateAndNormalizeConfig"
  /\ calls' = <<"ValidateAndNormalizeConfig">>
  /\ repeated' = FALSE
  /\ UNCHANGED <<rows, results>>

CallToSql ==
  /\ Running
  /\ LET r == ToSql(config)
     IN /\ config' = r.config
        /\ query' = r.query
        /\ args' = r.args
        /\ err' = r.err
        /\ calls' = <<"ToSql">> \o r.calls
  /\ op' = "ToSql"
  /\ repeated' = (op = "ToSql")
  /\ UNCHANGED <<rows, results>>

Next == CallBuildChartQuery \/ CallValidateAndNormalizeConfig \/ CallToSql

Spec == Init /\ [][Next]_vars

-----------------------------------------------------------------------------
(* Row materialisation: ScanDynamicChart and convertValue (chartrow.go)    *)

MaxRows == 2

(* a value as the driver hands it over: its Go type and its content *)
Scanned(kind, v) == [kind |-> kind, v |-> v]

Float64(v) == [kind |-> "float64", v |-> v]

(* driver.Value is declared as interface{}: in a type switch its case      *)
(* takes every value that is not the nil interface                         *)
IsDriverValue(val) == val # Nil

(* the type switch, its cases tried from the top *)
convertValue(val) ==
  IF val = Nil THEN Nil
  ELSE IF val.kind = "[]byte" THEN Scanned("string", val.v)
  ELSE IF IsDriverValue(val) THEN val
  ELSE IF val.kind \in {"int64", "int32", "int", "float32"} THEN Float64(val.v)
  ELSE IF val.kind \in {"float64", "string", "time.Time"} THEN val
  ELSE IF val.kind = "bool" THEN (IF val.v = "true" THEN Float64("1") ELSE Float64("0"))
  ELSE val

(* rows.Columns() *)
Columns == <<"x_value", "y_value_0">>

(* the ChartDataRow built from the converted values of one row *)
ChartDataRow(values) ==
  [XValue |-> values[1],
   YValues |-> [i \in 1..(Len(Columns) - 1) |->
                  [column |-> Columns[i + 1], value |-> values[i + 1]]]]

ScanValues ==
  {Nil, Scanned("[]byte", "paid"), Scanned("int64", "5"), Scanned("int32", "5"),
   Scanned("int", "5"), Scanned("float32", "2.5"), Scanned("float64", "2.5"),
   Scanned("string", "paid"), Scanned("time.Time", "2024-01-01T00:00:00Z"),
   Scanned("bool", "true"), Scanned("bool", "false")}

(* the rows of a result set: any value in the first column, a NULL, an     *)
(* integer or a boolean in the second                                      *)
ScanRows ==
  {<<x, y>> : x \in ScanValues,
              y \in {Nil, Scanned("int64", "5"), Scanned("bool", "true")}}

ErrScan == "sql: Scan error"

ErrRows == "sql: Rows are closed"

ScanInit ==
  /\ config = BaseConfig
  /\ op = "none"
  /\ query = <<>>
  /\ args = <<>>
  /\ err = NoError
  /\ calls = <<>>
  /\ repeated = FALSE
  /\ rows \in {[data |-> d, next |-> 0] : d \in SeqsUpTo(ScanRows, MaxRows)}
  /\ results = <<>>

Scanning == op \in {"none", "rows.Next"}

(* rows.Next() is true, rows.Scan succeeds: one more row in results *)
ScanRow ==
  /\ Scanning
  /\ rows.next < Len(rows.data)
  /\ LET scanned == rows.data[rows.next + 1]
         values == [i \in 1..Len(Columns) |-> convertValue(scanned[i])]
     IN results' = Append(results, ChartDataRow(values))
  /\ rows' = [rows EXCEPT !.next = @ + 1]
  /\ op' = "rows.Next"
  /\ UNCHANGED <<config, query, args, err, calls, repeated>>

(* rows.Next() is true, rows.Scan fails: nil and the error are returned *)
ScanRowFails ==
  /\ Scanning
  /\ rows.next < Len(rows.data)
  /\ rows' = [rows EXCEPT !.next = @ + 1]
  /\ results' = <<>>
  /\ err' = ErrScan
  /\ op' = "ScanDynamicChart"
  /\ UNCHANGED <<config, query, args, calls, repeated>>

(* rows.Next() is false: results and rows.Err() are returned *)
ScanReturn ==
  /\ Scanning
  /\ rows.next = Len(rows.data)
  /\ err' \in {NoError, ErrRows}
  /\ op' = "ScanDynamicChart"
  /\ UNCHANGED <<config, query, args, calls, repeated, rows, results>>

ScanNext == ScanRow \/ ScanRowFails \/ ScanReturn

ScanSpec == ScanInit /\ [][ScanNext]_vars

-----------------------------------------------------------------------------
(* Properties *)

(* the last call was a build that returned SQL: BuildChartQuery itself, or *)
(* ToSql handing back what BuildChartQuery returned                        *)
BuildSucceeded == op \in {"BuildChartQuery", "ToSql"} /\ err = NoError

(* the numbers of the placeholders of a text, left to right *)
PlaceholderNumbers(q) ==
  LET phs == SelectSeq(q, LAMBDA p : p.ph > 0)
  IN [k \in 1..Len(phs) |-> phs[k].ph]

(* the pieces filter i wrote: its WHERE term *)
FilterPieces(q, i) == SelectSeq(q, LAMBDA p : p.at = i)

(* the values a filter offers for binding, in order *)
Operands(filter) ==
  IF ToLower(filter.Operator) \in {"in", "not in", "between"}
  THEN filter.Values ELSE <<filter.Value>>

(* s is t with some elements left out *)
RECURSIVE IsSubSeq(_, _)
IsSubSeq(s, t) ==
  IF s = <<>> THEN TRUE
  ELSE IF t = <<>> THEN FALSE
  ELSE IF Head(s) = Head(t) THEN IsSubSeq(Tail(s), Tail(t))
  ELSE IsSubSeq(s, Tail(t))

(* C1: whenever a build succeeds, the placeholders of the SQL read left to *)
(* right are numbered 1, 2, ..., len(args); the values bound for the       *)
(* placeholders of a filter are non-NULL values of that filter in their    *)
(* order; and after each filter the counter is len(args) + 1.              *)
C1_PlaceholdersMatchArgs ==
  BuildSucceeded =>
    /\ PlaceholderNumbers(query) = [k \in 1..Len(args) |-> k]
    /\ \A i \in 1..Len(config.Filters) :
         LET nums == PlaceholderNumbers(FilterPieces(query, i))
             bound == [k \in 1..Len(nums) |-> args[nums[k]]]
         IN /\ IsSubSeq(bound, Operands(config.Filters[i]))
            /\ \A k \in 1..Len(bound) : bound[k] # Nil
    /\ \A n \in 0..Len(config.Filters) :
         LET st == BuildUpTo(config, n)
         IN st.err = NoError /\ st.argIndex = Len(st.args) + 1

(* C1 witness: a successful build of two or more filters, one of which     *)
(* binds nothing, with three or more arguments                             *)
C1_Witness ==
  /\ op = "BuildChartQuery"
  /\ err = NoError
  /\ Len(config.Filters) >= 2
  /\ Len(args) >= 3
  /\ \E i \in 1..Len(config.Filters) :
       PlaceholderNumbers(FilterPieces(query, i)) = <<>>

(* a boolean literal: a bool, or the string "true" or "false" in any case *)
IsBooleanLiteral(v) ==
  \/ v.kind = "bool"
  \/ v.kind = "string" /\ ToLower(v.v) \in {"true", "false"}

(* a value whose content the caller may change: non-NULL, no boolean literal *)
IsLiteral(v) == v # Nil /\ ~IsBooleanLiteral(v)

(* two ways of changing the content of a literal value *)
Hostile(v) == IF IsLiteral(v) THEN Str("x' OR '1'='1") ELSE v

Retyped(v) ==
  IF ~IsLiteral(v) THEN v
  ELSE IF v.kind = "int" THEN Str("n" \o v.v) ELSE Num(42)

ChangeFilter(filter, F(_)) ==
  [filter EXCEPT !.Value = F(@),
                 !.Values = [k \in 1..Len(@) |-> F(@[k])]]

(* the configurations that differ from c only in the content of literal    *)
(* values of the filters at the positions in some set                      *)
ValueVariants(c) ==
  {[c EXCEPT !.Filters = [i \in 1..Len(@) |->
                            IF i \in changed THEN ChangeFilter(@[i], Hostile) ELSE @[i]]] :
     changed \in SUBSET (1..Len(c.Filters))}
  \cup
  {[c EXCEPT !.Filters = [i \in 1..Len(@) |->
                            IF i \in changed THEN ChangeFilter(@[i], Retyped) ELSE @[i]]] :
     changed \in SUBSET (1..Len(c.Filters))}

(* the content of the literal values of a configuration's filters *)
LiteralContents(c) ==
  UNION {{c.Filters[i].Value.v : x \in {y \in {c.Filters[i].Value} : IsLiteral(y)}}
           \cup {c.Filters[i].Values[k].v :
                   k \in {j \in 1..Len(c.Filters[i].Values) : IsLiteral(c.Filters[i].Values[j])}} :
         i \in 1..Len(c.Filters)}

(* C2: whenever BuildChartQuery has returned, it returns the same SQL text *)
(* (and the same error) for every configuration that differs only in the  *)
(* content of non-NULL, non-boolean-literal filter values; no piece of the *)
(* SQL text is such a value's content, and on success the changed values   *)
(* are found in the argument list only.                                    *)
C2_ValuesNeverInlined ==
  op = "BuildChartQuery" =>
    /\ \A c2 \in ValueVariants(config) :
         LET r2 == BuildChartQuery(c2)
         IN /\ r2.query = query
            /\ Render(r2.query) = Render(query)
            /\ r2.err = err
            /\ Len(r2.args) = Len(args)
            /\ \A k \in 1..Len(args) : IsLiteral(args[k]) <=> IsLiteral(r2.args[k])
    /\ \A k \in 1..Len(query) :
         query[k].ph = 0 => query[k].text \notin LiteralContents(config)

(* C2 witness: a successful build that bound two or more literal values,   *)
(* one of them a string                                                    *)
C2_Witness ==
  /\ op = "BuildChartQuery"
  /\ err = NoError
  /\ Len(args) >= 2
  /\ \E k \in 1..Len(args) : args[k] = Str("completed")
  /\ ValueVariants(config) # {config}

(* C3: a filter with a non-empty Raw is emitted as the raw text, verbatim, *)
(* and its RawValues are appended to the argument list in their order,     *)
(* whatever its Column, Operator, Value and Values are.                    *)
C3_RawEmittedVerbatim ==
  BuildSucceeded =>
    \A i \in 1..Len(config.Filters) :
      config.Filters[i].Raw # "" =>
        /\ Render(FilterPieces(query, i)) = config.Filters[i].Raw
        /\ IsSubSeq(config.Filters[i].RawValues, args)

(* the text of one JOIN and of a list of joins, as the specification's     *)
(* "<KIND> JOIN <table> [<alias>] ON <condition>"                          *)
JoinSql(join) ==
  " " \o join.Type \o " JOIN " \o join.Table
      \o (IF join.Alias # "" THEN " " \o join.Alias ELSE "")
      \o " ON " \o join.Condition

RECURSIVE JoinsSql(_)
JoinsSql(joins) ==
  IF joins = <<>> THEN "" ELSE JoinSql(Head(joins)) \o JoinsSql(Tail(joins))

RECURSIVE AllJoins(_)
AllJoins(tables) ==
  IF tables = <<>> THEN <<>> ELSE Head(tables).Joins \o AllJoins(Tail(tables))

(* the JOIN clauses of a text *)
JoinText(q) == Render(SelectSeq(q, LAMBDA p : p.part = "join"))

(* C4 as stated: the JOIN clauses of a successful build are those of the   *)
(* joins of Tables[0], in list order, and no others.                       *)
C4_JoinsOfFirstTableOnly ==
  BuildSucceeded => JoinText(query) = JoinsSql(config.Tables[1].Joins)

(* C4 as amended: the JOIN clauses of a successful build are those of the  *)
(* joins of every table, in table order and within a table in list order.  *)
C4_JoinsOfEveryTable ==
  BuildSucceeded => JoinText(query) = JoinsSql(AllJoins(config.Tables))

(* C4 witness: a successful build with joins under the first table and     *)
(* under a later one                                                       *)
C4_Witness ==
  /\ op = "BuildChartQuery"
  /\ err = NoError
  /\ Len(config.Tables) >= 2
  /\ config.Tables[1].Joins # <<>>
  /\ config.Tables[2].Joins # <<>>

(* "$n, $n+1, ..." with m placeholders *)
RECURSIVE PlaceholderList(_, _)
PlaceholderList(n, m) ==
  IF m = 0 THEN ""
  ELSE "$" \o ToString(n) \o (IF m > 1 THEN ", " ELSE "") \o PlaceholderList(n + 1, m - 1)

(* the arguments in the list before filter i ran, and those it appended *)
ArgsBefore(i) == Len(BuildUpTo(config, i - 1).args)

ArgsBoundBy(i) == SubSeq(args, ArgsBefore(i) + 1, Len(BuildUpTo(config, i).args))

(* the WHERE term of filter i *)
TermText(i) == Render(FilterPieces(query, i))

IsOperator(filter, names) == ToLower(filter.Operator) \in names

(* C5 as stated: a NOT IN over NULL and non-NULL values gives              *)
(* "(col NOT IN ($n, ...) OR col IS NULL)" and binds the non-NULL values   *)
(* in their order.                                                         *)
C5_NotInMixedOrNull ==
  BuildSucceeded =>
    \A i \in 1..Len(config.Filters) :
      LET f == config.Filters[i]
          nn == NonNullValues(f.Values)
      IN IsOperator(f, {"not in"}) /\ Len(nn) > 0 /\ Len(nn) < Len(f.Values) =>
           /\ TermText(i) = "(" \o f.Column \o " NOT IN ("
                              \o PlaceholderList(ArgsBefore(i) + 1, Len(nn))
                              \o ") OR " \o f.Column \o " IS NULL)"
           /\ ArgsBoundBy(i) = nn

(* C5 as amended: a NOT IN over NULL and non-NULL values gives             *)
(* "(col NOT IN ($n, ...) AND col IS NOT NULL)" and binds the non-NULL     *)
(* values in their order.                                                  *)
C5_NotInMixedAndNotNull ==
  BuildSucceeded =>
    \A i \in 1..Len(config.Filters) :
      LET f == config.Filters[i]
          nn == NonNullValues(f.Values)
      IN IsOperator(f, {"not in"}) /\ Len(nn) > 0 /\ Len(nn) < Len(f.Values) =>
           /\ TermText(i) = "(" \o f.Column \o " NOT IN ("
                              \o PlaceholderList(ArgsBefore(i) + 1, Len(nn))
                              \o ") AND " \o f.Column \o " IS NOT NULL)"
           /\ ArgsBoundBy(i) = nn

(* C5 witness: a successful build with a NOT IN over a NULL between two    *)
(* non-NULL values, after a filter that bound an argument                  *)
C5_Witness ==
  /\ op = "BuildChartQuery"
  /\ err = NoError
  /\ \E i \in 2..Len(config.Filters) :
       /\ IsOperator(config.Filters[i], {"not in"})
       /\ config.Filters[i].Values = <<Num(1), Nil, Num(3)>>
       /\ ArgsBefore(i) > 0

(* C6 as stated: a NOT IN over non-NULL values gives "col NOT IN ($n, ...)" *)
(* with every value bound, and over NULLs alone "col IS NOT NULL" with     *)
(* nothing bound.                                                          *)
C6_NotInBare ==
  BuildSucceeded =>
    \A i \in 1..Len(config.Filters) :
      LET f == config.Filters[i]
          nn == NonNullValues(f.Values)
      IN IsOperator(f, {"not in"}) =>
           /\ Len(nn) = Len(f.Values) /\ Len(nn) > 0 =>
                /\ TermText(i) = f.Column \o " NOT IN ("
                                   \o PlaceholderList(ArgsBefore(i) + 1, Len(nn)) \o ")"
                /\ ArgsBoundBy(i) = f.Values
           /\ Len(nn) = 0 /\ Len(f.Values) > 0 =>
                /\ TermText(i) = f.Column \o " IS NOT NULL"
                /\ ArgsBoundBy(i) = <<>>

(* C6 as amended: a NOT IN over non-NULL values gives                      *)
(* "(col NOT IN ($n, ...) OR col IS NULL)" with one placeholder per value  *)
(* and every value bound, and over NULLs alone (one or more) it gives      *)
(* "col IS NOT NULL" with nothing bound.                                   *)
C6_NotInOrNull ==
  BuildSucceeded =>
    \A i \in 1..Len(config.Filters) :
      LET f == config.Filters[i]
          nn == NonNullValues(f.Values)
      IN IsOperator(f, {"not in"}) =>
           /\ Len(nn) = Len(f.Values) =>
                /\ TermText(i) = "(" \o f.Column \o " NOT IN ("
                                   \o PlaceholderList(ArgsBefore(i) + 1, Len(nn))
                                   \o ") OR " \o f.Column \o " IS NULL)"
                /\ ArgsBoundBy(i) = f.Values
                /\ Len(PlaceholderNumbers(FilterPieces(query, i))) = Len(f.Values)
           /\ Len(nn) = 0 /\ Len(f.Values) > 0 =>
                /\ TermText(i) = f.Column \o " IS NOT NULL"
                /\ ArgsBoundBy(i) = <<>>
                /\ PlaceholderNumbers(FilterPieces(query, i)) = <<>>

(* C6 witness: a successful build with a NOT IN over two non-NULL values   *)
(* after a filter that bound an argument                                   *)
C6_Witness ==
  /\ op = "BuildChartQuery"
  /\ err = NoError
  /\ \E i \in 2..Len(config.Filters) :
       /\ IsOperator(config.Filters[i], {"not in"})
       /\ config.Filters[i].Values = <<Num(1), Num(2)>>
       /\ ArgsBefore(i) > 0

(* C7: an IN over non-NULL values gives "col IN ($n, ...)" with every      *)
(* value bound; over NULLs alone (one or more) "col IS NULL" with nothing  *)
(* bound; over both "(col IN ($n, ...) OR col IS NULL)" with the non-NULL  *)
(* values bound in their order under consecutive numbers.                  *)
C7_InTerm ==
  BuildSucceeded =>
    \A i \in 1..Len(config.Filters) :
      LET f == config.Filters[i]
          nn == NonNullValues(f.Values)
          list == PlaceholderList(ArgsBefore(i) + 1, Len(nn))
      IN IsOperator(f, {"in"}) =>
           /\ ArgsBoundBy(i) = nn
           /\ PlaceholderNumbers(FilterPieces(query, i))
                = [k \in 1..Len(nn) |-> ArgsBefore(i) + k]
           /\ Len(nn) = Len(f.Values) =>
                TermText(i) = f.Column \o " IN (" \o list \o ")"
           /\ Len(nn) = 0 /\ Len(f.Values) > 0 =>
                TermText(i) = f.Column \o " IS NULL"
           /\ Len(nn) > 0 /\ Len(nn) < Len(f.Values) =>
                TermText(i) = "(" \o f.Column \o " IN (" \o list \o ") OR "
                                \o f.Column \o " IS NULL)"

(* C7 witness: the values [1, 2, NULL] built into                          *)
(* "(status IN ($1, $2) OR status IS NULL)" with the arguments [1, 2]      *)
C7_Witness ==
  /\ op = "BuildChartQuery"
  /\ err = NoError
  /\ Len(config.Filters) = 1
  /\ config.Filters[1].Operator = "IN"
  /\ config.Filters[1].Values = <<Num(1), Num(2), Nil>>
  /\ TermText(1) = "(status IN ($1, $2) OR status IS NULL)"
  /\ args = <<Num(1), Num(2)>>

(* the configuration without filter i *)
WithoutFilter(c, i) ==
  [c EXCEPT !.Filters = SubSeq(@, 1, i - 1) \o SubSeq(@, i + 1, Len(@))]

(* the placeholder numbers of the filters other than i, left to right *)
OtherPlaceholders(q, i) == PlaceholderNumbers(SelectSeq(q, LAMBDA p : p.at # i))

(* C8: "=", "!=" or "<>" with a NULL value gives "col IS NULL" for "=" and *)
(* "col IS NOT NULL" for the other two, appends no argument and leaves the *)
(* counter where it was: every other filter gets the placeholder numbers   *)
(* and the arguments it gets in the build without this filter.             *)
C8_EqualityWithNull ==
  BuildSucceeded =>
    \A i \in 1..Len(config.Filters) :
      LET f == config.Filters[i]
          without == BuildChartQuery(WithoutFilter(config, i))
      IN IsOperator(f, {"=", "!=", "<>"}) /\ f.Value = Nil =>
           /\ TermText(i) = f.Column \o (IF f.Operator = "=" THEN " IS NULL"
                                         ELSE " IS NOT NULL")
           /\ ArgsBoundBy(i) = <<>>
           /\ BuildUpTo(config, i).argIndex = BuildUpTo(config, i - 1).argIndex
           /\ without.err = NoError
           /\ without.args = args
           /\ PlaceholderNumbers(without.query) = OtherPlaceholders(query, i)

(* C8 witness: a successful build in which "!=" with NULL stands between   *)
(* nothing and a filter that binds arguments                               *)
C8_Witness ==
  /\ op = "BuildChartQuery"
  /\ err = NoError
  /\ Len(config.Filters) >= 2
  /\ config.Filters[1].Operator = "!="
  /\ config.Filters[1].Value = Nil
  /\ PlaceholderNumbers(FilterPieces(query, 2)) = <<1, 2>>

(* the truth value of a boolean literal *)
Truth(v) == IF v.kind = "bool" THEN v.v = "true" ELSE ToLower(v.v) = "true"

(* C9: "=", "!=" or "<>" with a boolean, or with the string "true" or      *)
(* "false" in any case, gives "col IS TRUE" / "col IS FALSE" for "=" and   *)
(* "col IS NOT TRUE" / "col IS NOT FALSE" for the other two, without       *)
(* placeholder or argument, the same for the string and the boolean form;  *)
(* any other non-NULL scalar gives "col OP $n" with the value bound.       *)
C9_EqualityWithBoolean ==
  BuildSucceeded =>
    \A i \in 1..Len(config.Filters) :
      LET f == config.Filters[i]
      IN IsOperator(f, {"=", "!=", "<>"}) /\ f.Value # Nil =>
           IF IsBooleanLiteral(f.Value)
           THEN /\ TermText(i) = f.Column \o " IS"
                                   \o (IF f.Operator = "=" THEN "" ELSE " NOT")
                                   \o (IF Truth(f.Value) THEN " TRUE" ELSE " FALSE")
                /\ ArgsBoundBy(i) = <<>>
                /\ PlaceholderNumbers(FilterPieces(query, i)) = <<>>
                /\ \A other \in {Bool(Truth(f.Value)),
                                 Str(IF Truth(f.Value) THEN "true" ELSE "false")} :
                     BuildChartQuery([config EXCEPT !.Filters[i].Value = other]).query
                       = query
           ELSE /\ TermText(i) = f.Column \o " " \o f.Operator \o " $"
                                   \o ToString(ArgsBefore(i) + 1)
                /\ ArgsBoundBy(i) = <<f.Value>>

(* C9 witness: a successful build of "!=" with the string "TRUE" after a   *)
(* filter that bound an argument                                           *)
C9_Witness ==
  /\ op = "BuildChartQuery"
  /\ err = NoError
  /\ \E i \in 2..Len(config.Filters) :
       /\ config.Filters[i].Operator = "!="
       /\ config.Filters[i].Value = Str("TRUE")
       /\ ArgsBefore(i) > 0
       /\ TermText(i) = "status IS NOT TRUE"

(* a BETWEEN with a NULL bound, or an ordered comparison with a NULL value *)
NullMisuse(filter) ==
  \/ /\ IsOperator(filter, {"between"})
     /\ \E k \in 1..Len(filter.Values) : k <= 2 /\ filter.Values[k] = Nil
  \/ /\ IsOperator(filter, {"<", "<=", ">", ">="})
     /\ filter.Value = Nil

(* C10: when some filter, at any position, is a BETWEEN with a NULL bound  *)
(* or an ordered comparison with NULL, ToSql, and BuildChartQuery on a     *)
(* configuration the validator accepts, return an error with empty SQL and *)
(* no arguments.                                                           *)
C10_NullMisuseReturnsError ==
  /\ \/ op = "ToSql"
     \/ op = "BuildChartQuery" /\ validateChartConfig(config) = NoError
  /\ \E i \in 1..Len(config.Filters) : NullMisuse(config.Filters[i])
  => /\ err # NoError
     /\ ~IsPanic(err)
     /\ query = <<>>
     /\ args = <<>>

(* the configuration is one the validator accepts and the builder ran on it *)
BuiltAfterValidation ==
  \/ op = "ToSql" /\ calls = <<"ToSql", "ValidateAndNormalizeConfig", "BuildChartQuery">>
  \/ op = "BuildChartQuery" /\ validateChartConfig(config) = NoError

(* the two errors of a NULL where no NULL can stand *)
NullErrors ==
  {ErrBetweenNull} \cup
  {ErrCompareNull(config.Filters[i].Operator) : i \in 1..Len(config.Filters)}

(* C11: on every configuration the validator accepts, BuildChartQuery      *)
(* returns SQL and arguments or one of the two NULL errors; it never fails *)
(* in another way, in particular never by an index out of range.           *)
C11_OnlyNullErrorsAfterValidation ==
  BuiltAfterValidation => err = NoError \/ err \in NullErrors

(* the sixteen operators of the documentation *)
DocumentedOperators ==
  {"=", "!=", "<>", "<", "<=", ">", ">=", "IN", "NOT IN", "BETWEEN",
   "IS NULL", "IS NOT NULL", "LIKE", "ILIKE", "NOT LIKE", "NOT ILIKE"}

(* what the documentation asks of a filter without a raw predicate *)
DocumentedFilter(filter) ==
  /\ filter.Column # ""
  /\ filter.Operator \in DocumentedOperators
  /\ filter.Operator = "IN" => Len(filter.Values) >= 1
  /\ filter.Operator = "BETWEEN" => Len(filter.Values) = 2
  /\ filter.Operator \notin {"IN", "BETWEEN", "IS NULL", "IS NOT NULL"}
       => filter.Value # Nil \/ Len(filter.Values) > 0

(* the configuration is valid but for its filters *)
ValidButForFilters == validateChartConfig([config EXCEPT !.Filters = <<>>]) = NoError

(* C12: on a configuration that is valid but for its filters, the          *)
(* validator returns no error exactly when every filter without a raw      *)
(* predicate has a column, one of the sixteen documented operators, at     *)
(* least one value for IN, exactly two for BETWEEN, and a value or a value *)
(* sequence for every operator but IN, BETWEEN, IS NULL and IS NOT NULL.   *)
C12_ValidatorAcceptsDocumentedFilters ==
  op = "ValidateAndNormalizeConfig" /\ ValidButForFilters
  => (err = NoError
      <=> \A i \in 1..Len(config.Filters) :
            config.Filters[i].Raw # "" \/ DocumentedFilter(config.Filters[i]))

ScenarioSql ==
  "SELECT created_at as x_value, SUM(amount) as y_value_0 FROM orders "
    \o "LEFT JOIN users ON orders.user_id = users.id WHERE deleted_at IS NULL "
    \o "GROUP BY created_at ORDER BY created_at ASC LIMIT 100"

(* the configuration is the quick-start scenario, its options apart *)
IsScenario == [config EXCEPT !.Options = ScenarioConfig.Options] = ScenarioConfig

(* C13: ToSql accepts the quick-start scenario and returns exactly its SQL *)
(* with an empty argument list.                                            *)
C13_ScenarioThroughToSql ==
  op = "ToSql" /\ IsScenario
  => err = NoError /\ Render(query) = ScenarioSql /\ args = <<>>

(* the builder alone, without the validator, does build the scenario *)
ScenarioBuildsWithoutValidation ==
  op = "BuildChartQuery" /\ IsScenario
  => err = NoError /\ Render(query) = ScenarioSql /\ args = <<>>

ScenarioBuilt == op = "BuildChartQuery" /\ IsScenario

(* the error of each stage of the validation, taken alone: the error the   *)
(* validator returns when nothing else is wrong with the configuration     *)
KindEmptyError(c) ==
  IF c.ChartType = "" THEN validateChartConfig([BaseConfig EXCEPT !.ChartType = ""])
  ELSE NoError

KindInvalidError(c) ==
  IF c.ChartType # "" THEN validateChartConfig([BaseConfig EXCEPT !.ChartType = c.ChartType])
  ELSE NoError

TitleError(c) == validateChartConfig([BaseConfig EXCEPT !.Title = c.Title])

TableCountError(c) ==
  IF Len(c.Tables) = 0 THEN validateChartConfig([BaseConfig EXCEPT !.Tables = <<>>])
  ELSE NoError

TablesError(c) ==
  IF Len(c.Tables) # 0 THEN validateChartConfig([BaseConfig EXCEPT !.Tables = c.Tables])
  ELSE NoError

YAxisCountError(c) ==
  IF Len(c.YAxis) = 0 THEN validateChartConfig([BaseConfig EXCEPT !.YAxis = <<>>])
  ELSE NoError

YAxesError(c) ==
  IF Len(c.YAxis) # 0 THEN validateChartConfig([BaseConfig EXCEPT !.YAxis = c.YAxis])
  ELSE NoError

XAxisError(c) == validateChartConfig([BaseConfig EXCEPT !.XAxis = c.XAxis])

FiltersError(c) == validateChartConfig([BaseConfig EXCEPT !.Filters = c.Filters])

(* the first error of a sequence of stage errors *)
RECURSIVE FirstError(_)
FirstError(errors) ==
  IF errors = <<>> THEN NoError
  ELSE IF Head(errors) # NoError THEN Head(errors)
  ELSE FirstError(Tail(errors))

ViolatedStages(errors) == Cardinality({k \in 1..Len(errors) : errors[k] # NoError})

(* chart kind, title, table count, y-axis count, x-axis column, per-table  *)
(* checks, y-axis checks, filters                                          *)
KindFirstOrder(c) ==
  <<KindEmptyError(c), KindInvalidError(c), TitleError(c), TableCountError(c),
    YAxisCountError(c), XAxisError(c), TablesError(c), YAxesError(c), FiltersError(c)>>

(* empty chart kind, title, table count, y-axis count, chart kind not      *)
(* among the valid ones, per-table checks, x-axis column, y-axis checks,   *)
(* filters                                                                 *)
SourceOrder(c) ==
  <<KindEmptyError(c), TitleError(c), TableCountError(c), YAxisCountError(c),
    KindInvalidError(c), TablesError(c), XAxisError(c), YAxesError(c), FiltersError(c)>>

(* C14 as stated: the validator returns the error of the earliest violated *)
(* stage in the order chart kind, title, table count, y-axis count, x-axis *)
(* column, per-table join checks, y-axis aggregation checks, per-filter    *)
(* checks.                                                                 *)
C14_FailsFastKindFirst ==
  op = "ValidateAndNormalizeConfig" => err = FirstError(KindFirstOrder(config))

(* C14 amended: the validator returns the error of the earliest violated   *)
(* stage in the order empty chart kind, empty title, table count, y-axis   *)
(* count, chart kind not among the valid kinds, per-table checks (name,    *)
(* then joins), x-axis column, per-y-axis checks, per-filter checks.       *)
C14_FailsFastSourceOrder ==
  op = "ValidateAndNormalizeConfig" => err = FirstError(SourceOrder(config))

(* an empty title reported before an invalid chart kind, and a bad join    *)
(* before an empty x-axis column                                           *)
C14_Witness ==
  /\ op = "ValidateAndNormalizeConfig"
  /\ ViolatedStages(SourceOrder(config)) >= 2
  /\ \/ /\ KindInvalidError(config) # NoError
        /\ err = TitleError(config)
        /\ err # NoError
     \/ /\ XAxisError(config) # NoError
        /\ err = TablesError(config)
        /\ err # NoError

(* ToSql returned after the validation alone, with empty SQL and no        *)
(* arguments                                                               *)
ReturnedBeforeBuild ==
  /\ calls = <<"ToSql", "ValidateAndNormalizeConfig">>
  /\ query = <<>>
  /\ args = <<>>

(* C15 as stated: a configuration with an empty title fails validation     *)
(* with the error of the title field, and ToSql returns that error with    *)
(* empty SQL and no arguments without calling BuildChartQuery.             *)
C15_EmptyTitleRejected ==
  op \in {"ValidateAndNormalizeConfig", "ToSql"} /\ config.Title = ""
  => /\ err = "title is required"
     /\ op = "ToSql" => ReturnedBeforeBuild

(* C15 amended: the same of a configuration with an empty title and a      *)
(* non-empty chart kind.                                                   *)
C15_EmptyTitleWithKindRejected ==
  /\ op \in {"ValidateAndNormalizeConfig", "ToSql"}
  /\ config.Title = ""
  /\ config.ChartType # ""
  => /\ err = "title is required"
     /\ op = "ToSql" => ReturnedBeforeBuild

C15_Witness ==
  /\ op = "ToSql"
  /\ config.Title = ""
  /\ config.ChartType # ""
  /\ err = "title is required"
  /\ ReturnedBeforeBuild

(* the call just made ran the validator and the validator accepted *)
ValidatedNow ==
  \/ op' = "ValidateAndNormalizeConfig" /\ err' = NoError
  \/ op' = "ToSql" /\ Len(calls') = 3

(* the fields that have defaults: join types, order directions, options *)
JoinTypes(c) == [k \in 1..Len(AllJoins(c.Tables)) |-> AllJoins(c.Tables)[k].Type]

Directions(c) == [k \in 1..Len(c.OrderBy) |-> c.OrderBy[k].Direction]

OrGiven(value, unset, default) == IF value = unset THEN default ELSE value

(* the ORDER BY clause of a text *)
OrderText(q) == Render(SelectSeq(q, LAMBDA p : p.part = "order"))

RECURSIVE OrderSql(_)
OrderSql(orderBy) ==
  IF orderBy = <<>> THEN ""
  ELSE Head(orderBy).Column \o " " \o Head(orderBy).Direction
         \o (IF Len(orderBy) > 1 THEN ", " ELSE "") \o OrderSql(Tail(orderBy))

DefaultsFilled ==
  /\ Len(JoinTypes(config')) = Len(JoinTypes(config))
  /\ \A k \in 1..Len(JoinTypes(config)) :
       /\ JoinTypes(config')[k] \in {"INNER", "LEFT", "RIGHT", "FULL"}
       /\ JoinTypes(config')[k] = OrGiven(JoinTypes(config)[k], "", "INNER")
  /\ Len(Directions(config')) = Len(Directions(config))
  /\ \A k \in 1..Len(Directions(config)) :
       /\ Directions(config')[k] # ""
       /\ Directions(config')[k] = OrGiven(Directions(config)[k], "", "ASC")
  /\ config'.Options.Width # 0
  /\ config'.Options.Width = OrGiven(config.Options.Width, 0, 800)
  /\ config'.Options.Height # 0
  /\ config'.Options.Height = OrGiven(config.Options.Height, 0, 400)
  /\ config'.Options.Theme # ""
  /\ config'.Options.Theme = OrGiven(config.Options.Theme, "", "light")

(* the builder leaves these fields as they are and writes them as they are *)
DefaultsNotFilledByBuild ==
  /\ JoinTypes(config') = JoinTypes(config)
  /\ Directions(config') = Directions(config)
  /\ config'.Options = config.Options
  /\ err' = NoError =>
       /\ JoinText(query') = JoinsSql(AllJoins(config.Tables))
       /\ Len(config.OrderBy) > 0 =>
            OrderText(query') = " ORDER BY " \o OrderSql(config.OrderBy)

(* C16: a successful ValidateAndNormalizeConfig leaves every join type in  *)
(* INNER, LEFT, RIGHT, FULL (an empty one became INNER), every order       *)
(* direction non-empty (an empty one became ASC), width, height and theme  *)
(* set (unset ones became 800, 400, "light") and the values already set as *)
(* they were; BuildChartQuery fills in none of these defaults, neither in  *)
(* the configuration nor in the SQL it writes.                             *)
C16_DefaultsOnlyByValidator ==
  [][/\ ValidatedNow => DefaultsFilled
     /\ op' = "BuildChartQuery" => DefaultsNotFilledByBuild]_vars

(* every default filled in beside values that were set *)
C16_Witness ==
  /\ op = "ValidateAndNormalizeConfig"
  /\ err = NoError
  /\ JoinTypes(config) = <<"INNER", "RIGHT">>
  /\ config.Tables[1].Joins[1].Table = "payments"
  /\ Directions(config) = <<"ASC", "DESC">>
  /\ config.Options = [Width |-> 800, Height |-> 300, Theme |-> "light"]

C19_BuildLeavesConfig ==
  [][op' = "BuildChartQuery" => config' = config]_vars

(* a build that read a join without a type and unset options, and a build *)
(* that failed on a filter                                                 *)
C19_Witness ==
  /\ op = "BuildChartQuery"
  /\ \/ /\ err = NoError
        /\ \E k \in 1..Len(JoinTypes(config)) : JoinTypes(config)[k] = ""
        /\ config.Options.Width = 0
     \/ /\ err = ErrBetweenNull
        /\ Len(config.Filters) = 2

(* the call just made returned an error of the validator *)
RejectedNow ==
  \/ op' = "ValidateAndNormalizeConfig" /\ err' # NoError
  \/ op' = "ToSql" /\ Len(calls') = 2 /\ err' # NoError

(* C20: when ValidateAndNormalizeConfig, alone or under ToSql, returns a   *)
(* validation error, the configuration is as it was passed in: chart type  *)
(* not lowercased, no default filled in.                                   *)
C20_RejectedConfigUntouched ==
  [][RejectedNow => config' = config]_vars

(* a rejected configuration with an upper-case chart type and unset        *)
(* options, or with an unset sort direction                                *)
C20_Witness ==
  /\ op \in {"ValidateAndNormalizeConfig", "ToSql"}
  /\ err # NoError
  /\ query = <<>>
  /\ \/ /\ config.ChartType = "LINE"
        /\ config.Options = [Width |-> 0, Height |-> 0, Theme |-> ""]
     \/ /\ Len(config.OrderBy) > 0
        /\ config.OrderBy[1].Direction = ""

(* the canonical scalar form of a scanned value *)
Canonical(val) ==
  IF val = Nil THEN Nil
  ELSE IF val.kind = "[]byte" THEN [kind |-> "string", v |-> val.v]
  ELSE IF val.kind \in {"int", "int32", "int64", "float32", "float64"}
  THEN [kind |-> "float64", v |-> val.v]
  ELSE IF val.kind = "bool"
  THEN [kind |-> "float64", v |-> IF val.v = "true" THEN "1" ELSE "0"]
  ELSE val

(* C18: every value of every materialised row is the canonical form of the *)
(* value scanned: bytes as text, every integer and floating-point value as *)
(* a float64, a boolean as 1.0 or 0.0, NULL as NULL.                       *)
C18_ScannedValuesCanonical ==
  \A i \in 1..Len(results) :
    /\ results[i].XValue = Canonical(rows.data[i][1])
    /\ \A k \in 1..Len(results[i].YValues) :
         results[i].YValues[k].value = Canonical(rows.data[i][k + 1])

(* C21: a ToSql that follows another on the same configuration object,     *)
(* which the first call normalised in place, returns what the first call   *)
(* returned (the same SQL and arguments, or the same error) and leaves the *)
(* configuration as the first call left it; and a configuration the        *)
(* validator has just accepted is one it accepts again.                    *)
C21_ToSqlIdempotent ==
  [][/\ op = "ToSql" /\ op' = "ToSql"
        => /\ config' = config
           /\ Render(query') = Render(query)
           /\ args' = args
           /\ err' = err
           /\ calls' = calls
     /\ ValidatedNow => validateChartConfig(config') = NoError]_vars

(* a second ToSql on a configuration whose join type, sort direction and   *)
(* options the first call filled in                                        *)
C21_Witness ==
  /\ repeated
  /\ op = "ToSql"
  /\ err = NoError
  /\ JoinTypes(config) = <<"INNER", "RIGHT">>
  /\ config.Tables[1].Joins[1].Table = "payments"
  /\ Directions(config) = <<"ASC", "DESC">>
  /\ config.Options = [Width |-> 800, Height |-> 400, Theme |-> "light"]
  /\ Len(query) > 0

====
